---- MODULE Spec2Model ----
(***************************************************************************)
(* Model of src/src/script.mjs: the three entry points invoke, error and   *)
(* halt of the "add user to Identity Center group" action, together with   *)
(* the helpers getUserIdFromUsername, addUserToGroup and validateInputs.   *)
(*                                                                         *)
(* A JavaScript string is a sequence of atoms.  An atom is either a single *)
(* character of Chars or a literal fragment of the source text (such as    *)
(* "User not found: "), so that template literals are concatenations and   *)
(* "the message contains the userName" is a statement about subsequences.  *)
(* A JavaScript value is a record [t, s, n]: its type tag, its string      *)
(* content and its numeric content.                                        *)
(***************************************************************************)
EXTENDS Integers, Sequences, FiniteSets, TLC

\* Longest parameter string the host passes.
MaxStrLen == 1

\* Characters of parameter strings: one whitespace character, one other.
Chars == {" ", "a"}

RECURSIVE StringsUpTo(_)
StringsUpTo(n) ==
  IF n = 0 THEN {<< >>}
  ELSE LET S == StringsUpTo(n - 1)
       IN S \cup {Append(s, c) : s \in {x \in S : Len(x) = n - 1}, c \in Chars}

(***************************************************************************)
(* JavaScript values                                                       *)
(***************************************************************************)
Undefined == [t |-> "undefined", s |-> << >>, n |-> 0]
Str(s)    == [t |-> "string", s |-> s, n |-> 0]
Num(k)    == [t |-> "number", s |-> << >>, n |-> k]

\* ToBoolean: what `!v` and `v || d` test.
Truthy(v) ==
  CASE v.t = "string" -> Len(v.s) > 0
    [] v.t = "number" -> v.n # 0
    [] OTHER -> FALSE

IsWhitespace(c) == c = " "

RECURSIVE TrimStart(_)
TrimStart(s) ==
  IF s # << >> /\ IsWhitespace(Head(s)) THEN TrimStart(Tail(s)) ELSE s

RECURSIVE TrimEnd(_)
TrimEnd(s) ==
  IF s # << >> /\ IsWhitespace(s[Len(s)])
  THEN TrimEnd(SubSeq(s, 1, Len(s) - 1))
  ELSE s

\* String.prototype.trim
Trim(s) == TrimEnd(TrimStart(s))

\* Array.prototype.join on an array of strings
RECURSIVE Join(_, _)
Join(strs, sep) ==
  IF strs = << >> THEN << >>
  ELSE IF Len(strs) = 1 THEN strs[1]
  ELSE strs[1] \o sep \o Join(Tail(strs), sep)

\* sub occurs in s as a contiguous substring
Contains(s, sub) ==
  \E i \in 1..(Len(s) + 1) :
    /\ i + Len(sub) - 1 <= Len(s)
    /\ SubSeq(s, i, i + Len(sub) - 1) = sub

(***************************************************************************)
(* Error objects                                                           *)
(***************************************************************************)
NoError == [cls |-> "none", message |-> << >>, retryable |-> "unset"]

RetryableError(message) ==
  [cls |-> "RetryableError", message |-> message, retryable |-> "true"]

FatalError(message) ==
  [cls |-> "FatalError", message |-> message, retryable |-> "false"]

\* The built-in Error: it carries no retryable field.
PlainError(message) ==
  [cls |-> "Error", message |-> message, retryable |-> "unset"]

\* The value `undefined` when it is thrown.
ThrownUndefined == [cls |-> "undefined", message |-> << >>, retryable |-> "unset"]

(***************************************************************************)
(* Responses of the directory service to client.send                       *)
(***************************************************************************)
OkResponse(id) == [ok |-> TRUE, id |-> id, name |-> "", message |-> << >>]

ErrResponse(name, message) ==
  [ok |-> FALSE, id |-> << >>, name |-> name, message |-> message]

NoResponse == [ok |-> FALSE, id |-> << >>, name |-> "none", message |-> << >>]

\* What a helper hands back to invoke: a value, or an error it threw.
Returned(value) == [threw |-> FALSE, value |-> value, error |-> NoError]
Threw(error)    == [threw |-> TRUE, value |-> << >>, error |-> error]

(***************************************************************************)
(* getUserIdFromUsername: what it does with the response of client.send    *)
(***************************************************************************)
getUserIdFromUsername(response, userName) ==
  IF response.ok THEN Returned(response.id)
  ELSE IF response.name = "ResourceNotFoundException"
    THEN Threw(FatalError(<<"User not found: ">> \o userName))
  ELSE IF response.name \in {"ThrottlingException", "ServiceUnavailableException"}
    THEN Threw(RetryableError(
           <<"AWS service temporarily unavailable: ">> \o response.message))
  ELSE Threw(FatalError(
         <<"Failed to get user ID for ">> \o userName \o <<": ">>
           \o response.message))

(***************************************************************************)
(* addUserToGroup: what it does with the response of client.send           *)
(***************************************************************************)
addUserToGroupNoConflictBranch(response, groupId) ==
  IF response.ok THEN Returned(response.id)
  ELSE IF response.name = "ResourceNotFoundException"
    THEN Threw(FatalError(<<"Group not found: ">> \o groupId))
  ELSE IF response.name \in {"ThrottlingException", "ServiceUnavailableException"}
    THEN Threw(RetryableError(
           <<"AWS service temporarily unavailable: ">> \o response.message))
  ELSE Threw(FatalError(<<"Failed to add user to group: ">> \o response.message))

addUserToGroupNoNotFoundBranch(response, groupId) ==
  IF response.ok THEN Returned(response.id)
  ELSE IF response.name = "ConflictException" THEN Returned(<<"existing">>)
  ELSE IF response.name \in {"ThrottlingException", "ServiceUnavailableException"}
    THEN Threw(RetryableError(
           <<"AWS service temporarily unavailable: ">> \o response.message))
  ELSE Threw(FatalError(<<"Failed to add user to group: ">> \o response.message))

addUserToGroup(response, groupId) ==
  IF response.ok THEN Returned(response.id)
  ELSE IF response.name = "ConflictException" THEN Returned(<<"existing">>)
  ELSE IF response.name = "ResourceNotFoundException"
    THEN Threw(FatalError(<<"Group not found: ">> \o groupId))
  ELSE IF response.name \in {"ThrottlingException", "ServiceUnavailableException"}
    THEN Threw(RetryableError(
           <<"AWS service temporarily unavailable: ">> \o response.message))
  ELSE Threw(FatalError(<<"Failed to add user to group: ">> \o response.message))

(***************************************************************************)
(* validateInputs: NoError when it returns, else the FatalError it throws  *)
(***************************************************************************)
InvalidParam(v) == ~Truthy(v) \/ v.t # "string" \/ Trim(v.s) = << >>

validateInputs(p) ==
  IF InvalidParam(p.userName)
    THEN FatalError(<<"Invalid or missing userName parameter">>)
  ELSE IF InvalidParam(p.identityStoreId)
    THEN FatalError(<<"Invalid or missing identityStoreId parameter">>)
  ELSE IF InvalidParam(p.groupId)
    THEN FatalError(<<"Invalid or missing groupId parameter">>)
  ELSE IF InvalidParam(p.region)
    THEN FatalError(<<"Invalid or missing region parameter">>)
  ELSE NoError

(***************************************************************************)
(* invoke: the pieces of the handler                                       *)
(***************************************************************************)
\* The error thrown when template resolution reported errors.
TemplateError(errs) ==
  PlainError(<<"Failed to resolve template values: ">> \o Join(errs, <<", ">>))

\* !context.secrets?.BASIC_USERNAME || !context.secrets?.BASIC_PASSWORD
MissingCredentials(s) ==
  \/ ~s.present
  \/ ~Truthy(s.BASIC_USERNAME)
  \/ ~Truthy(s.BASIC_PASSWORD)

NoClient ==
  [constructed |-> FALSE, region |-> << >>,
   accessKeyId |-> << >>, secretAccessKey |-> << >>]

IdentitystoreClient(region, s) ==
  [constructed |-> TRUE, region |-> region,
   accessKeyId |-> s.BASIC_USERNAME.s, secretAccessKey |-> s.BASIC_PASSWORD.s]

GetUserIdCommand(identityStoreId, userName) ==
  [cmd |-> "GetUserId", IdentityStoreId |-> identityStoreId,
   AttributeValue |-> userName, GroupId |-> << >>, UserId |-> << >>]

CreateGroupMembershipCommandWrongMember(identityStoreId, groupId, uid) ==
  [cmd |-> "CreateGroupMembership", IdentityStoreId |-> identityStoreId,
   AttributeValue |-> << >>, GroupId |-> groupId, UserId |-> groupId]

CreateGroupMembershipCommand(identityStoreId, groupId, uid) ==
  [cmd |-> "CreateGroupMembership", IdentityStoreId |-> identityStoreId,
   AttributeValue |-> << >>, GroupId |-> groupId, UserId |-> uid]

NoResult ==
  [userName |-> << >>, groupId |-> << >>, userId |-> << >>,
   membershipId |-> << >>, added |-> FALSE]

\* The result object (addedAt, a clock reading, is left out).
InvokeResult(userName, groupId, uid, membershipId) ==
  [userName |-> userName, groupId |-> groupId, userId |-> uid,
   membershipId |-> IF membershipId = <<"existing">>
                    THEN <<"already-member">> ELSE membershipId,
   added |-> membershipId # <<"existing">>]

\* The catch block of invoke: the error that leaves the handler.
InvokeCatchWrapAll(error) ==
  FatalError(<<"Unexpected error: ">> \o error.message)

InvokeCatch(error) ==
  IF error.cls \in {"RetryableError", "FatalError"}
  THEN error
  ELSE FatalError(<<"Unexpected error: ">> \o error.message)

(***************************************************************************)
(* error and halt                                                          *)
(***************************************************************************)
\* error: the value it throws.
ErrorHandlerWrap(p) == FatalError(<<"Unexpected error: ">> \o p.error.message)

ErrorHandler(p) == p.error

Unknown == Str(<<"unknown">>)

\* halt: the object it returns (haltedAt, a clock reading, is left out).
HaltHandlerNoDefault(p) ==
  [userName |-> p.userName, groupId |-> p.groupId, reason |-> p.reason,
   cleanupCompleted |-> TRUE]

HaltHandler(p) ==
  [userName |-> IF Truthy(p.userName) THEN p.userName ELSE Unknown,
   groupId |-> IF Truthy(p.groupId) THEN p.groupId ELSE Unknown,
   reason |-> IF Truthy(p.reason) THEN p.reason ELSE Unknown,
   cleanupCompleted |-> TRUE]

NoHaltResult ==
  [userName |-> Undefined, groupId |-> Undefined, reason |-> Undefined,
   cleanupCompleted |-> FALSE]

(***************************************************************************)
(* What the host and the environment supply                                *)
(***************************************************************************)
FieldOrder == <<"userName", "identityStoreId", "groupId", "region">>

Fields == {FieldOrder[i] : i \in 1..Len(FieldOrder)}

\* A parameter that is a template expression over the job context.
Tmpl == Str(<<"{{$.x}}">>)

ParamValues ==
  {Undefined, Num(7), Tmpl} \cup {Str(s) : s \in StringsUpTo(MaxStrLen)}

ParamsSet == [Fields -> ParamValues]

NoParams == [f \in Fields |-> Undefined]

\* context.secrets: absent, or an object whose two fields may be missing.
CredentialValues == {Undefined, Str(<< >>), Str(<<"k">>)}

SecretsSet ==
  {[present |-> FALSE, BASIC_USERNAME |-> Undefined, BASIC_PASSWORD |-> Undefined]}
  \cup [present : {TRUE}, BASIC_USERNAME : CredentialValues,
        BASIC_PASSWORD : CredentialValues]

NoSecrets ==
  [present |-> FALSE, BASIC_USERNAME |-> Undefined, BASIC_PASSWORD |-> Undefined]

\* What a template expression resolves to, when it resolves.
TemplateValues == {<< >>, <<"a">>}

TemplateChoices ==
  {[ok |-> FALSE, s |-> << >>]} \cup [ok : {TRUE}, s : TemplateValues]

\* resolveJSONPathTemplates(params, jobContext): a parameter that is no
\* template is passed through; a template either resolves to a string or
\* adds one message to errors.  choice is the outcome for each template.
resolveJSONPathTemplates(p, choice) ==
  LET failed(f) == p[f] = Tmpl /\ ~choice[f].ok
      failing   == SelectSeq(FieldOrder, failed)
  IN [result |-> [f \in Fields |->
                    IF p[f] = Tmpl /\ choice[f].ok THEN Str(choice[f].s)
                    ELSE p[f]],
      errors |-> [i \in 1..Len(failing) |-> <<"unresolved: ", failing[i]>>]]

UserIds == {<<"u-1">>, <<"u-2">>}

MembershipIds == {<<"m-1">>, <<"existing">>}

ErrorNames ==
  {"ResourceNotFoundException", "ThrottlingException",
   "ServiceUnavailableException", "ConflictException", "AccessDeniedException"}

UpstreamMessages == {<<"Rate exceeded">>, <<"no such resource">>}

ErrResponses == {ErrResponse(n, m) : n \in ErrorNames, m \in UpstreamMessages}

GetUserIdResponses == {OkResponse(id) : id \in UserIds} \cup ErrResponses

CreateGroupMembershipResponses ==
  {OkResponse(id) : id \in MembershipIds} \cup ErrResponses

\* halt's params: reason, userName and groupId, each possibly absent.
HaltValues == {Undefined, Num(0)} \cup {Str(s) : s \in StringsUpTo(MaxStrLen)}

HaltParamsSet ==
  [reason : HaltValues, userName : HaltValues, groupId : HaltValues]

NoHaltParams ==
  [reason |-> Undefined, userName |-> Undefined, groupId |-> Undefined]

\* error's params.error: an error of any class, or nothing.
ErrorObjects ==
  {ThrownUndefined}
  \cup {RetryableError(m) : m \in UpstreamMessages}
  \cup {FatalError(m) : m \in UpstreamMessages}
  \cup {PlainError(m) : m \in UpstreamMessages}

(***************************************************************************)
(* State                                                                   *)
(***************************************************************************)
VARIABLES
  op,                 \* the entry point the host called: invoke, error, halt
  pc,                 \* where the call stands
  params,             \* invoke: params
  secrets,            \* invoke: context.secrets
  resolvedParams,     \* invoke: result of template resolution
  errors,             \* invoke: errors of template resolution
  client,             \* invoke: the IdentitystoreClient
  userId,             \* invoke: the resolved user identifier
  getUserIdResponse,  \* what the service answered to GetUserId
  createResponse,     \* what the service answered to CreateGroupMembership
  netCalls,           \* the commands sent to the service, in order
  steps,              \* the steps of invoke that ran, in order
  result,             \* invoke: the object returned
  thrown,             \* the error that left the handler
  haltParams,         \* halt: params
  haltResult,         \* halt: the object returned
  errorParams         \* error: params

vars ==
  <<op, pc, params, secrets, resolvedParams, errors, client, userId,
    getUserIdResponse, createResponse, netCalls, steps, result, thrown,
    haltParams, haltResult, errorParams>>

invokeLocals ==
  <<resolvedParams, errors, client, userId, getUserIdResponse, createResponse,
    netCalls, steps, result, thrown>>

Init ==
  /\ op = "none"
  /\ pc = "idle"
  /\ params = NoParams
  /\ secrets = NoSecrets
  /\ resolvedParams = NoParams
  /\ errors = << >>
  /\ client = NoClient
  /\ userId = << >>
  /\ getUserIdResponse = NoResponse
  /\ createResponse = NoResponse
  /\ netCalls = << >>
  /\ steps = << >>
  /\ result = NoResult
  /\ thrown = NoError
  /\ haltParams = NoHaltParams
  /\ haltResult = NoHaltResult
  /\ errorParams = [error |-> NoError]

(***************************************************************************)
(* invoke                                                                  *)
(***************************************************************************)
\* The host calls invoke(params, context).
HostInvoke ==
  /\ pc = "idle"
  /\ \E p \in ParamsSet, s \in SecretsSet :
       /\ params' = p
       /\ secrets' = s
  /\ op' = "invoke"
  /\ pc' = "templates"
  /\ UNCHANGED <<invokeLocals, haltParams, haltResult, errorParams>>

\* Template resolution; its errors are thrown outside the try block.
ResolveTemplates ==
  /\ pc = "templates"
  /\ \E choice \in [Fields -> TemplateChoices] :
       LET r == resolveJSONPathTemplates(params, choice)
       IN /\ \A f \in Fields : params[f] # Tmpl => choice[f] = [ok |-> FALSE, s |-> << >>]
          /\ resolvedParams' = r.result
          /\ errors' = r.errors
          /\ IF Len(r.errors) > 0
             THEN /\ thrown' = TemplateError(r.errors)
                  /\ pc' = "raised"
             ELSE /\ thrown' = thrown
                  /\ pc' = "validate"
  /\ steps' = Append(steps, "templates")
  /\ UNCHANGED <<op, params, secrets, client, userId, getUserIdResponse,
                 createResponse, netCalls, result, haltParams, haltResult,
                 errorParams>>

\* validateInputs(resolvedParams), inside the try block.
Validate ==
  /\ pc = "validate"
  /\ LET e == validateInputs(resolvedParams)
     IN IF e # NoError
        THEN /\ thrown' = InvokeCatch(e)
             /\ pc' = "raised"
        ELSE /\ thrown' = thrown
             /\ pc' = "credentials"
  /\ steps' = Append(steps, "validate")
  /\ UNCHANGED <<op, params, secrets, resolvedParams, errors, client, userId,
                 getUserIdResponse, createResponse, netCalls, result,
                 haltParams, haltResult, errorParams>>

\* The check of context.secrets.
CheckCredentials ==
  /\ pc = "credentials"
  /\ IF MissingCredentials(secrets)
     THEN /\ thrown' = InvokeCatch(
                          FatalError(<<"Missing required credentials in secrets">>))
          /\ pc' = "raised"
     ELSE /\ thrown' = thrown
          /\ pc' = "client"
  /\ steps' = Append(steps, "credentials")
  /\ UNCHANGED <<op, params, secrets, resolvedParams, errors, client, userId,
                 getUserIdResponse, createResponse, netCalls, result,
                 haltParams, haltResult, errorParams>>

\* new IdentitystoreClient(...): library code, which may throw.
ConstructClient ==
  /\ pc = "client"
  /\ \E throws \in BOOLEAN :
       IF throws
       THEN /\ thrown' = InvokeCatch(PlainError(<<"client construction failed">>))
            /\ client' = client
            /\ pc' = "raised"
       ELSE /\ thrown' = thrown
            /\ client' = IdentitystoreClient(resolvedParams.region.s, secrets)
            /\ pc' = "getUserId"
  /\ steps' = Append(steps, "client")
  /\ UNCHANGED <<op, params, secrets, resolvedParams, errors, userId,
                 getUserIdResponse, createResponse, netCalls, result,
                 haltParams, haltResult, errorParams>>

\* getUserIdFromUsername: client.send(GetUserIdCommand), up to the await.
SendGetUserId ==
  /\ pc = "getUserId"
  /\ netCalls' = Append(netCalls,
                   GetUserIdCommand(resolvedParams.identityStoreId.s,
                                    resolvedParams.userName.s))
  /\ steps' = Append(steps, "getUserId")
  /\ pc' = "awaitGetUserId"
  /\ UNCHANGED <<op, params, secrets, resolvedParams, errors, client, userId,
                 getUserIdResponse, createResponse, result, thrown,
                 haltParams, haltResult, errorParams>>

\* The service answers; getUserIdFromUsername returns or throws.
GetUserIdResponds ==
  /\ pc = "awaitGetUserId"
  /\ \E response \in GetUserIdResponses :
       LET r == getUserIdFromUsername(response, resolvedParams.userName.s)
       IN /\ getUserIdResponse' = response
          /\ IF r.threw
             THEN /\ thrown' = InvokeCatch(r.error)
                  /\ userId' = userId
                  /\ pc' = "raised"
             ELSE /\ thrown' = thrown
                  /\ userId' = r.value
                  /\ pc' = "addUserToGroup"
  /\ UNCHANGED <<op, params, secrets, resolvedParams, errors, client,
                 createResponse, netCalls, steps, result, haltParams,
                 haltResult, errorParams>>

\* addUserToGroup: client.send(CreateGroupMembershipCommand), up to the await.
SendCreateGroupMembership ==
  /\ pc = "addUserToGroup"
  /\ netCalls' = Append(netCalls,
                   CreateGroupMembershipCommand(resolvedParams.identityStoreId.s,
                                                resolvedParams.groupId.s, userId))
  /\ steps' = Append(steps, "addUserToGroup")
  /\ pc' = "awaitAddUserToGroup"
  /\ UNCHANGED <<op, params, secrets, resolvedParams, errors, client, userId,
                 getUserIdResponse, createResponse, result, thrown,
                 haltParams, haltResult, errorParams>>

\* The service answers; addUserToGroup returns or throws; the result is built.
CreateGroupMembershipResponds ==
  /\ pc = "awaitAddUserToGroup"
  /\ \E response \in CreateGroupMembershipResponses :
       LET r == addUserToGroup(response, resolvedParams.groupId.s)
       IN /\ createResponse' = response
          /\ IF r.threw
             THEN /\ thrown' = InvokeCatch(r.error)
                  /\ result' = result
                  /\ pc' = "raised"
             ELSE /\ thrown' = thrown
                  /\ result' = InvokeResult(resolvedParams.userName.s,
                                            resolvedParams.groupId.s,
                                            userId, r.value)
                  /\ pc' = "returned"
  /\ UNCHANGED <<op, params, secrets, resolvedParams, errors, client, userId,
                 getUserIdResponse, netCalls, steps, haltParams, haltResult,
                 errorParams>>

(***************************************************************************)
(* error and halt                                                          *)
(***************************************************************************)
\* The host calls error(params, context): it logs and throws params.error.
HostError ==
  /\ pc = "idle"
  /\ \E e \in ErrorObjects :
       /\ errorParams' = [error |-> e]
       /\ thrown' = ErrorHandler([error |-> e])
  /\ op' = "error"
  /\ pc' = "raised"
  /\ UNCHANGED <<params, secrets, resolvedParams, errors, client, userId,
                 getUserIdResponse, createResponse, netCalls, steps, result,
                 haltParams, haltResult>>

\* The host calls halt(params, context): it logs and returns.
HostHalt ==
  /\ pc = "idle"
  /\ \E p \in HaltParamsSet :
       /\ haltParams' = p
       /\ haltResult' = HaltHandler(p)
  /\ op' = "halt"
  /\ pc' = "returned"
  /\ UNCHANGED <<params, secrets, invokeLocals, errorParams>>

Next ==
  \/ HostInvoke
  \/ ResolveTemplates
  \/ Validate
  \/ CheckCredentials
  \/ ConstructClient
  \/ SendGetUserId
  \/ GetUserIdResponds
  \/ SendCreateGroupMembership
  \/ CreateGroupMembershipResponds
  \/ HostError
  \/ HostHalt

Spec == Init /\ [][Next]_vars

(***************************************************************************)
(* Properties                                                              *)
(***************************************************************************)
Classified(e) == e.cls \in {"RetryableError", "FatalError"}

Transient(response) ==
  /\ ~response.ok
  /\ response.name \in {"ThrottlingException", "ServiceUnavailableException"}

NotFound(response) ==
  ~response.ok /\ response.name = "ResourceNotFoundException"

Conflict(response) ==
  ~response.ok /\ response.name = "ConflictException"

Failed(response) == ~response.ok /\ response.name # "none"

IsPrefix(s, t) == Len(s) <= Len(t) /\ s = SubSeq(t, 1, Len(s))

\* C1: every error that escapes invoke is a Retryable or a Fatal error; when
\* template resolution reports errors, invoke raises a Fatal error whose
\* message joins the reported messages, and no network call is made.
C1_EscapingErrorsAreClassified ==
  (op = "invoke" /\ pc = "raised") =>
    /\ Classified(thrown)
    /\ errors # << >> =>
         /\ thrown.cls = "FatalError"
         /\ Contains(thrown.message, Join(errors, <<", ">>))
         /\ netCalls = << >>

\* The message validation gives for a field.
InvalidMessage(f) ==
  CASE f = "userName" -> <<"Invalid or missing userName parameter">>
    [] f = "identityStoreId" -> <<"Invalid or missing identityStoreId parameter">>
    [] f = "groupId" -> <<"Invalid or missing groupId parameter">>
    [] f = "region" -> <<"Invalid or missing region parameter">>

\* omitted, empty, whitespace-only or not a string
Blank(v) ==
  \/ v.t # "string"
  \/ \A i \in 1..Len(v.s) : v.s[i] = " "

FirstBlank(p) ==
  FieldOrder[CHOOSE i \in 1..Len(FieldOrder) :
               /\ Blank(p[FieldOrder[i]])
               /\ \A j \in 1..(i - 1) : ~Blank(p[FieldOrder[j]])]

\* C2: when one of userName, identityStoreId, groupId, region (as template
\* resolution leaves it, which is what invoke validates) is omitted, empty,
\* whitespace-only or not a string, invoke makes no network call and raises a
\* Fatal error carrying the message of the first such field in the order
\* userName, identityStoreId, groupId, region.
C2_InvalidParamIsFatalBeforeNetwork ==
  (/\ op = "invoke"
   /\ steps # << >>
   /\ \E f \in Fields : Blank(resolvedParams[f])) =>
    /\ netCalls = << >>
    /\ pc # "returned"
    /\ pc = "raised" =>
         thrown = FatalError(InvalidMessage(FirstBlank(resolvedParams)))

AbsentOrEmpty(v) == v = Undefined \/ v = Str(<< >>)

\* C3: when a credential field is absent or empty in context.secrets, or
\* context.secrets is absent, invoke raises a Fatal error, the client is
\* never constructed and no network call is made.
C3_MissingCredentialIsFatalBeforeClient ==
  (/\ op = "invoke"
   /\ \/ ~secrets.present
      \/ AbsentOrEmpty(secrets.BASIC_USERNAME)
      \/ AbsentOrEmpty(secrets.BASIC_PASSWORD)) =>
    /\ ~client.constructed
    /\ netCalls = << >>
    /\ pc # "returned"
    /\ pc = "raised" => thrown.cls = "FatalError"

C5_ConflictIsSuccess ==
  (op = "invoke" /\ getUserIdResponse.ok /\ Conflict(createResponse)) =>
    /\ pc = "returned"
    /\ thrown = NoError
    /\ result.added = FALSE
    /\ result.membershipId = <<"already-member">>
    /\ result.userId = getUserIdResponse.id
    /\ result.userId \in UserIds

C5_Witness ==
  /\ op = "invoke"
  /\ pc = "returned"
  /\ getUserIdResponse.ok
  /\ Conflict(createResponse)

RaisedRetryable(response) ==
  /\ pc = "raised"
  /\ thrown.cls = "RetryableError"
  /\ thrown.retryable = "true"
  /\ Contains(thrown.message, response.message)
  /\ thrown =
       RetryableError(<<"AWS service temporarily unavailable: ">> \o response.message)

\* C6: a throttling or service-unavailable error from the resolve call or
\* from the create call makes invoke raise a Retryable error whose message
\* embeds the upstream message; it leaves invoke as it was thrown, not
\* wrapped as Fatal.
C6_TransientIsRetryable ==
  op = "invoke" =>
    /\ Transient(getUserIdResponse) => RaisedRetryable(getUserIdResponse)
    /\ Transient(createResponse) => RaisedRetryable(createResponse)

C6_Witness ==
  /\ op = "invoke"
  /\ pc = "raised"
  /\ getUserIdResponse.ok
  /\ createResponse = ErrResponse("ThrottlingException", <<"Rate exceeded">>)

RaisedFatal == pc = "raised" /\ thrown.cls = "FatalError" /\ thrown.retryable = "false"

\* C7: a not-found error on the resolve call makes invoke raise a Fatal error
\* containing the userName, and the create call is not issued; a not-found
\* error on the create call makes invoke raise a Fatal error containing the
\* groupId; every other upstream failure that is not throttling or
\* service-unavailable (nor, on create, a conflict) raises Fatal, a conflict
\* on the resolve call included.
C7_NotFoundAndOtherFailuresAreFatal ==
  op = "invoke" =>
    /\ NotFound(getUserIdResponse) =>
         /\ RaisedFatal
         /\ Contains(thrown.message, resolvedParams.userName.s)
         /\ Len(netCalls) = 1
         /\ netCalls[1].cmd = "GetUserId"
    /\ NotFound(createResponse) =>
         /\ RaisedFatal
         /\ Contains(thrown.message, resolvedParams.groupId.s)
    /\ (Failed(getUserIdResponse) /\ ~Transient(getUserIdResponse)) =>
         RaisedFatal /\ Len(netCalls) = 1
    /\ (Failed(createResponse) /\ ~Transient(createResponse)
          /\ ~Conflict(createResponse)) => RaisedFatal

C7_Witness ==
  /\ op = "invoke"
  /\ pc = "raised"
  /\ NotFound(createResponse)
  /\ resolvedParams.groupId.s # << >>

HaltKeys == {"reason", "userName", "groupId"}

\* C8 as stated: halt never raises, returns cleanupCompleted = TRUE, each of
\* userName, groupId, reason is the supplied value, or "unknown" when the
\* value is absent; halt makes no network call.
C8_HaltDefaultsOnlyWhenAbsent ==
  op = "halt" =>
    /\ pc = "returned"
    /\ thrown = NoError
    /\ netCalls = << >>
    /\ haltResult.cleanupCompleted
    /\ \A k \in HaltKeys :
         haltResult[k] = IF haltParams[k] = Undefined THEN Unknown
                         ELSE haltParams[k]

\* C8 amended: halt never raises, returns cleanupCompleted = TRUE, each of
\* userName, groupId, reason is the supplied value, or "unknown" when the
\* value is absent or falsy (the empty string, 0); halt makes no network call.
C8_HaltDefaultsWhenAbsentOrEmpty ==
  op = "halt" =>
    /\ pc = "returned"
    /\ thrown = NoError
    /\ netCalls = << >>
    /\ haltResult.cleanupCompleted
    /\ \A k \in HaltKeys :
         haltResult[k] = IF haltParams[k] \in {Undefined, Str(<< >>), Num(0)} THEN Unknown
                         ELSE haltParams[k]

C8_Witness ==
  /\ op = "halt"
  /\ pc = "returned"
  /\ haltParams.reason = Str(<< >>)
  /\ haltParams.userName = Undefined
  /\ haltParams.groupId = Str(<<"a">>)

StepOrder ==
  <<"templates", "validate", "credentials", "client", "getUserId", "addUserToGroup">>

\* C10: within one invoke the steps run in the order template resolution,
\* validation, credential check, resolve call, create call; at most two
\* network calls are made, each at most once; the create call is issued only
\* after the resolve call succeeded and carries the identifier it returned.
C10_StepOrderAndCalls ==
  op = "invoke" =>
    /\ IsPrefix(steps, StepOrder)
    /\ Len(netCalls) <= 2
    /\ Len(netCalls) >= 1 =>
         /\ netCalls[1].cmd = "GetUserId"
         /\ netCalls[1].AttributeValue = resolvedParams.userName.s
    /\ Len(netCalls) = 2 =>
         /\ netCalls[2].cmd = "CreateGroupMembership"
         /\ getUserIdResponse.ok
         /\ netCalls[2].UserId = getUserIdResponse.id
         /\ netCalls[2].GroupId = resolvedParams.groupId.s
    /\ Failed(getUserIdResponse) => Len(netCalls) = 1
    /\ pc \in {"returned", "raised"} =>
         Len(netCalls) = Len(SelectSeq(steps, LAMBDA s : s \in {"getUserId", "addUserToGroup"}))

C10_Witness ==
  /\ op = "invoke"
  /\ pc = "raised"
  /\ Len(netCalls) = 2
  /\ Transient(createResponse)

====
